---- MODULE Spec2Model ----
(***************************************************************************)
(* Model of the Login Flow Controller, src/src/pages/Login/LoginPage.tsx.  *)
(*                                                                         *)
(* The component's local state (this.state), its props, the static        *)
(* authenticationConfig and the browser location are the variables.  One   *)
(* action stands for each lifecycle method / event handler of the class,   *)
(* and two actions stand for the environment changing the props.           *)
(*                                                                         *)
(* The message literals of the source are Chinese; string literals here    *)
(* are ASCII, so every literal is replaced by a distinct ASCII stand-in    *)
(* named after the line that holds the original.                           *)
(***************************************************************************)
EXTENDS Integers, Sequences, FiniteSets, TLC

(***************************************************************************)
(* Bounds and value sets.                                                  *)
(***************************************************************************)
\* Longest text a user types into a field or the environment supplies.
MaxTextLen == 2

\* Consecutive submit events counted before the count saturates.
MaxRepeat == 2

\* Most authenticate requests outstanding at once.
MaxInFlight == 2

Alphabet == {"a"}

RECURSIVE TextsUpTo(_)
TextsUpTo(n) ==
  IF n = 0 THEN {""}
  ELSE LET T == TextsUpTo(n - 1) IN T \cup {t \o c : t \in T, c \in Alphabet}

\* The values of a string: every text over Alphabet of length <= MaxTextLen.
Texts == TextsUpTo(MaxTextLen)

\* The JavaScript value undefined, for the optional string props and fields.
Undefined == "<undefined>"

\* An optional string (message?: string, postLoginErrorMsg?: string).
OptTexts == {Undefined, "", "m"}

\* JavaScript truthiness of a string-or-undefined value: !!v.
Truthy(v) == v # Undefined /\ v # ""

\* AuthStrategy (types/Auth): the local credential form or the external IdP.
AuthStrategy == {"login", "openshift"}

\* LoginStatus (store/Store).
LoginStatus == {"idle", "logging", "expired", "error"}

\* authenticationConfig.authorizationEndpoint is optional (the `!` at line 74).
Endpoints == {Undefined, "https://idp/oauth/authorize"}

\* The location of the page that holds the component.
AppLocation == "https://kiali/console"

(***************************************************************************)
(* Literals of the source.                                                 *)
(***************************************************************************)
\* line 86
MsgInvalidCredentials == "[Invalid login credentials.]"
\* line 89
MsgBothRequired == "[Username and password are required.]"
\* line 91
MsgPasswordRequired == "[Password is required.]"
\* line 92
MsgUsernameRequired == "[Username is required.]"
\* line 132
MsgSecretMissing == "[The Kiali secret is missing.]"
\* line 138
MsgSessionExpired == "[Your session has expired or was terminated in another window.]"
\* line 177
LabelLoggingIn == "[Logging in...]"

\* line 150
LabelLogin == "[Log in]"
\* line 152
LabelLoginOpenShift == "[Log in with OpenShift]"

VARIABLES
  state,                 \* this.state: LoginState (lines 23-31)
  props,                 \* this.props: the data props of LoginProps (lines 12-21)
  authenticationConfig,  \* the imported static configuration (line 8)
  phase,                 \* lifecycle: "constructed" or "mounted"
  href,                  \* window.location.href
  focused,               \* whether the username input holds the focus
  lastEvent,             \* the handler that ran last: "none", "mount", "change", "submit"
  calls,                 \* the external operations the last handler invoked, in order
  branch,                \* the branch of handleSubmit the last submit took
  lastSubmit,            \* the fields as they were when the last submit happened
  repeat,                \* submit events since the last change event, up to MaxRepeat
  checkCredentialsCalls, \* how often this instance invoked props.checkCredentials
  inFlight               \* authenticate requests dispatched and not yet settled

vars == <<state, props, authenticationConfig, phase, href, focused,
          lastEvent, calls, branch, lastSubmit, repeat,
          checkCredentialsCalls, inFlight>>

(***************************************************************************)
(* The constructor.                                                        *)
(***************************************************************************)
InitialState ==
  [username        |-> "",
   password        |-> "",
   isValidUsername |-> TRUE,
   isValidPassword |-> TRUE,
   filledInputs    |-> FALSE,
   showHelperText  |-> FALSE,
   errorInput      |-> ""]

PropsSet ==
  [status                : LoginStatus,
   message               : OptTexts,
   isPostLoginPerforming : BOOLEAN,
   postLoginErrorMsg     : OptTexts]

ConfigSet ==
  [strategy              : AuthStrategy,
   authorizationEndpoint : Endpoints,
   secretMissing         : BOOLEAN]

\* props.authenticate is a required prop and mapDispatchToProps always binds it.
authenticateProvided == TRUE

\* React's setState with an object: the patch is merged into the state.
setState(s, patch) ==
  [k \in DOMAIN s |-> IF k \in DOMAIN patch THEN patch[k] ELSE s[k]]

Init ==
  /\ state = InitialState
  /\ props \in PropsSet
  /\ authenticationConfig \in ConfigSet
  /\ phase = "constructed"
  /\ href = AppLocation
  /\ focused = FALSE
  /\ lastEvent = "none"
  /\ calls = <<>>
  /\ branch = "none"
  /\ lastSubmit = [happened |-> FALSE, username |-> "", password |-> ""]
  /\ repeat = 0
  /\ checkCredentialsCalls = 0
  /\ inFlight = 0

(***************************************************************************)
(* handleSubmit (lines 69-102).                                            *)
(***************************************************************************)
\* ValidationMessage with the two single-field variants exchanged.
ValidationMessage_VariantsSwapped(s) ==
  MsgInvalidCredentials \o
    (IF ~Truthy(s.username) /\ ~Truthy(s.password) THEN MsgBothRequired
     ELSE IF Truthy(s.username) THEN MsgUsernameRequired
     ELSE MsgPasswordRequired)

\* lines 86-92: the prefix, then one of the three variants.
ValidationMessage(s) ==
  MsgInvalidCredentials \o
    (IF ~Truthy(s.username) /\ ~Truthy(s.password) THEN MsgBothRequired
     ELSE IF Truthy(s.username) THEN MsgPasswordRequired
     ELSE MsgUsernameRequired)

\* The assignment window.location.href = v converts v to a string.
Navigate(v) == IF v = Undefined THEN "undefined" ELSE v

\* UsesRedirect that falls through to the local branch when no endpoint is set.
UsesRedirect_OnlyWithEndpoint(cfg) ==
  cfg.strategy = "openshift" /\ cfg.authorizationEndpoint # Undefined

\* line 72: the external identity provider takes the submit.
UsesRedirect(cfg) == cfg.strategy = "openshift"

\* ValidityPatch with filledInputs computed with || in place of &&.
ValidityPatch_FilledIfEither(s) ==
  [isValidUsername |-> Truthy(s.username),
   isValidPassword |-> Truthy(s.password),
   filledInputs    |-> Truthy(s.username) \/ Truthy(s.password)]

\* lines 76-80: the first setState of the local branch.
ValidityPatch(s) ==
  [isValidUsername |-> Truthy(s.username),
   isValidPassword |-> Truthy(s.password),
   filledInputs    |-> Truthy(s.username) /\ Truthy(s.password)]

\* line 82
CanAuthenticate(s) ==
  Truthy(s.username) /\ Truthy(s.password) /\ authenticateProvided

\* authenticateCall with the two arguments exchanged.
authenticateCall_ArgsSwapped(s) == <<"authenticate", s.password, s.username>>

\* line 83: the call of props.authenticate with its arguments.
authenticateCall(s) == <<"authenticate", s.username, s.password>>

\* AcceptedPatch that hides the helper text but keeps the old errorInput.
AcceptedPatch_KeepsError == [showHelperText |-> FALSE]

\* line 84
AcceptedPatch == [showHelperText |-> FALSE, errorInput |-> ""]

\* RejectedPatch that leaves the validity flags as lines 76-80 computed them.
RejectedPatch_KeepsOwnValidity(s) ==
  [showHelperText |-> TRUE,
   errorInput     |-> ValidationMessage(s)]

\* RejectedPatch that appends the new message to the errorInput already held.
RejectedPatch_Accumulates(s) ==
  [showHelperText  |-> TRUE,
   errorInput      |-> s.errorInput \o ValidationMessage(s),
   isValidUsername |-> FALSE,
   isValidPassword |-> FALSE]

\* lines 94-99
RejectedPatch(s) ==
  [showHelperText  |-> TRUE,
   errorInput      |-> ValidationMessage(s),
   isValidUsername |-> FALSE,
   isValidPassword |-> FALSE]

\* The handler as a function of the state and the configuration it reads.  The
\* result holds the state after the merged setState calls, the external
\* operations invoked, the navigations triggered and the branch taken.  The
\* setState calls do not touch username or password, so the reads of
\* this.state at lines 82-92 see the same fields whether or not React batches.
handleSubmit(s, cfg) ==
  IF UsesRedirect(cfg)
  THEN [state  |-> s,
        calls  |-> <<>>,
        nav    |-> <<Navigate(cfg.authorizationEndpoint)>>,
        branch |-> "redirect"]
  ELSE LET s1 == setState(s, ValidityPatch(s))
       IN IF CanAuthenticate(s)
          THEN [state  |-> setState(s1, AcceptedPatch),
                calls  |-> <<authenticateCall(s)>>,
                nav    |-> <<>>,
                branch |-> "local"]
          ELSE [state  |-> setState(s1, RejectedPatch(s)),
                calls  |-> <<>>,
                nav    |-> <<>>,
                branch |-> "local"]

(***************************************************************************)
(* Rendering (lines 103-210).  An element of the helper text is a record:  *)
(* kind "span" for the styled span renderMessage builds, kind "text" for a *)
(* bare value ('' from renderMessage, or props.message pushed as it is).   *)
(***************************************************************************)
Span(text, variant) == [kind |-> "span", text |-> text, variant |-> variant]
Bare(text) == [kind |-> "text", text |-> text, variant |-> "none"]

\* lines 103-122; type is Undefined when the caller passes one argument.
renderMessage(message, type, s, p) ==
  IF ~Truthy(message) THEN Bare("")
  ELSE Span(message,
            IF Truthy(type) THEN type
            ELSE IF p.status = "error" \/ s.filledInputs THEN "danger"
            ELSE "warning")

\* lines 126-128
ValidationEntries(s, p) ==
  IF s.showHelperText
  THEN <<renderMessage(s.errorInput, Undefined, s, p)>> ELSE <<>>

\* SecretMissingEntries that drops the warning while the status is error.
SecretMissingEntries_NotOnError(s, p, cfg) ==
  IF cfg.secretMissing /\ p.status # "error"
  THEN <<renderMessage(MsgSecretMissing, "danger", s, p)>> ELSE <<>>

\* lines 129-136
SecretMissingEntries(s, p, cfg) ==
  IF cfg.secretMissing
  THEN <<renderMessage(MsgSecretMissing, "danger", s, p)>> ELSE <<>>

\* lines 137-139
ExpiredEntries(s, p) ==
  IF p.status = "expired"
  THEN <<renderMessage(MsgSessionExpired, "warning", s, p)>> ELSE <<>>

\* lines 140-142: props.message is pushed as it is, not through renderMessage.
StatusEntries(p, cfg) ==
  IF ~cfg.secretMissing /\ p.status = "error" THEN <<Bare(p.message)>> ELSE <<>>

\* lines 143-145
PostLoginEntries(s, p) ==
  IF Truthy(p.postLoginErrorMsg)
  THEN <<renderMessage(p.postLoginErrorMsg, Undefined, s, p)>> ELSE <<>>

\* getHelperMessage that pushes the expired warning before the secret warning.
getHelperMessage_ExpiredFirst(s, p, cfg) ==
  ValidationEntries(s, p)
  \o ExpiredEntries(s, p)
  \o SecretMissingEntries(s, p, cfg)
  \o StatusEntries(p, cfg)
  \o PostLoginEntries(s, p)

\* lines 124-147
getHelperMessage(s, p, cfg) ==
  ValidationEntries(s, p)
  \o SecretMissingEntries(s, p, cfg)
  \o ExpiredEntries(s, p)
  \o StatusEntries(p, cfg)
  \o PostLoginEntries(s, p)

\* isLoggingIn with && in place of ||.
isLoggingIn_NeedsBoth(p) == p.isPostLoginPerforming /\ p.status = "logging"

\* line 156
isLoggingIn(p) == p.isPostLoginPerforming \/ p.status = "logging"

\* lines 162-180: the props render passes to the login form.
LoginFormProps(s, p, cfg) ==
  LET messages == getHelperMessage(s, p, cfg) IN
  [showHelperText        |-> s.showHelperText \/ p.message # "" \/ Len(messages) > 0,
   helperText            |-> messages,
   usernameValue         |-> s.username,
   isValidUsername       |-> s.isValidUsername /\ p.status # "error",
   passwordValue         |-> s.password,
   isValidPassword       |-> s.isValidPassword /\ p.status # "error",
   loginButtonLabel      |-> IF isLoggingIn(p) THEN LabelLoggingIn ELSE Undefined,
   isLoginButtonDisabled |-> isLoggingIn(p) \/ Truthy(p.postLoginErrorMsg)]

\* lines 201-207: the form is rendered under the login strategy, a plain
\* button under every other.
FormRendered(cfg) == cfg.strategy = "login"

\* lines 150-153: the label of the plain button.
loginLabel(cfg) ==
  IF cfg.strategy = "openshift" THEN LabelLoginOpenShift ELSE LabelLogin

\* lines 201-207: the submit control render puts on the page, the form's login
\* button under the login strategy and the plain button otherwise.  The plain
\* button gets no disabled prop and a fixed label.
SubmitControl(s, p, cfg) ==
  IF FormRendered(cfg)
  THEN [disabled |-> LoginFormProps(s, p, cfg).isLoginButtonDisabled,
        label    |-> LoginFormProps(s, p, cfg).loginButtonLabel]
  ELSE [disabled |-> FALSE,
        label    |-> loginLabel(cfg)]

\* A submit event can happen: the plain button is always enabled, the form's
\* login button only while isLoginButtonDisabled is false.
SubmitEnabled(s, p, cfg) ==
  FormRendered(cfg) => ~LoginFormProps(s, p, cfg).isLoginButtonDisabled

(***************************************************************************)
(* Actions.                                                                *)
(***************************************************************************)
\* componentDidMount with the checkCredentials call moved under `if (loginInput)`.
componentDidMount_OnlyWithInput ==
  /\ phase = "constructed"
  /\ phase' = "mounted"
  /\ checkCredentialsCalls' =
       IF FormRendered(authenticationConfig)
       THEN checkCredentialsCalls + 1 ELSE checkCredentialsCalls
  /\ calls' = IF FormRendered(authenticationConfig)
              THEN << <<"checkCredentials">> >> ELSE <<>>
  /\ focused' = FormRendered(authenticationConfig)
  /\ lastEvent' = "mount"
  /\ UNCHANGED <<state, props, authenticationConfig, href, branch, lastSubmit,
                 repeat,
                 inFlight>>

\* lines 51-59
componentDidMount ==
  /\ phase = "constructed"
  /\ phase' = "mounted"
  /\ checkCredentialsCalls' = checkCredentialsCalls + 1
  /\ calls' = << <<"checkCredentials">> >>
  /\ focused' = FormRendered(authenticationConfig)
  /\ lastEvent' = "mount"
  /\ UNCHANGED <<state, props, authenticationConfig, href, branch, lastSubmit,
                 repeat,
                 inFlight>>

\* handleUsernameChange that also clears the validation error on edit.
handleUsernameChange_ClearsError(value) ==
  /\ phase = "mounted"
  /\ FormRendered(authenticationConfig)
  /\ state' = setState(state, [username       |-> value,
                               showHelperText |-> FALSE,
                               errorInput     |-> ""])
  /\ calls' = <<>>
  /\ lastEvent' = "change"
  /\ repeat' = 0
  /\ UNCHANGED <<props, authenticationConfig, phase, href, focused, branch,
                 lastSubmit, checkCredentialsCalls,
                 inFlight>>

\* lines 61-63
handleUsernameChange(value) ==
  /\ phase = "mounted"
  /\ FormRendered(authenticationConfig)
  /\ state' = setState(state, [username |-> value])
  /\ calls' = <<>>
  /\ lastEvent' = "change"
  /\ repeat' = 0
  /\ UNCHANGED <<props, authenticationConfig, phase, href, focused, branch,
                 lastSubmit, checkCredentialsCalls,
                 inFlight>>

\* lines 65-67
handlePasswordChange(passwordValue) ==
  /\ phase = "mounted"
  /\ FormRendered(authenticationConfig)
  /\ state' = setState(state, [password |-> passwordValue])
  /\ calls' = <<>>
  /\ lastEvent' = "change"
  /\ repeat' = 0
  /\ UNCHANGED <<props, authenticationConfig, phase, href, focused, branch,
                 lastSubmit, checkCredentialsCalls,
                 inFlight>>

\* dispatchAuthenticate that cancels the requests still outstanding.
dispatchAuthenticate_CancelsEarlier(n) == 1

\* lines 218-219: props.authenticate dispatches a new thunk and returns; it
\* neither awaits nor cancels the n requests dispatched before.
dispatchAuthenticate(n) == n + 1

\* lines 69-102, reached from the form (line 175) or the button (line 204).
\* The handler reads nothing of the outstanding requests; the model stops
\* dispatching at MaxInFlight to stay finite.
Submit ==
  /\ phase = "mounted"
  /\ SubmitEnabled(state, props, authenticationConfig)
  /\ LET r == handleSubmit(state, authenticationConfig) IN
       /\ r.calls # <<>> => inFlight < MaxInFlight
       /\ inFlight' = IF r.calls # <<>> THEN dispatchAuthenticate(inFlight)
                      ELSE inFlight
       /\ state' = r.state
       /\ calls' = r.calls
       /\ branch' = r.branch
       /\ href' = IF r.nav = <<>> THEN href ELSE r.nav[Len(r.nav)]
  /\ lastSubmit' = [happened |-> TRUE,
                    username |-> state.username,
                    password |-> state.password]
  /\ lastEvent' = "submit"
  /\ repeat' = IF repeat < MaxRepeat THEN repeat + 1 ELSE repeat
  /\ UNCHANGED <<props, authenticationConfig, phase, focused, checkCredentialsCalls>>

\* lines 213-216: the store changes status and message.
StoreUpdate ==
  /\ phase = "mounted"
  /\ \E st \in LoginStatus, m \in OptTexts :
       props' = [props EXCEPT !.status = st, !.message = m]
  /\ UNCHANGED <<state, authenticationConfig, phase, href, focused, lastEvent,
                 calls, branch, lastSubmit, repeat, checkCredentialsCalls,
                 inFlight>>

\* lines 19-20: the parent changes the post-login props.
ParentUpdate ==
  /\ phase = "mounted"
  /\ \E b \in BOOLEAN, m \in OptTexts :
       props' = [props EXCEPT !.isPostLoginPerforming = b, !.postLoginErrorMsg = m]
  /\ UNCHANGED <<state, authenticationConfig, phase, href, focused, lastEvent,
                 calls, branch, lastSubmit, repeat, checkCredentialsCalls,
                 inFlight>>

\* The authenticate operation (actions/LoginThunkActions): an outstanding
\* request settles, and its result arrives as a change of the props the store
\* owns.
AuthenticateSettles ==
  /\ inFlight > 0
  /\ inFlight' = inFlight - 1
  /\ \E st \in LoginStatus, m \in OptTexts :
       props' = [props EXCEPT !.status = st, !.message = m]
  /\ UNCHANGED <<state, authenticationConfig, phase, href, focused, lastEvent,
                 calls, branch, lastSubmit, repeat, checkCredentialsCalls>>

Next ==
  \/ componentDidMount
  \/ \E value \in Texts : handleUsernameChange(value)
  \/ \E passwordValue \in Texts : handlePasswordChange(passwordValue)
  \/ Submit
  \/ StoreUpdate
  \/ ParentUpdate
  \/ AuthenticateSettles

Spec == Init /\ [][Next]_vars

(***************************************************************************)
(* Properties.                                                             *)
(***************************************************************************)
LocalStrategy == authenticationConfig.strategy # "openshift"

\* The last handler that ran was a submit, with the fields as lastSubmit holds.
AfterSubmit == lastEvent = "submit" /\ lastSubmit.happened

BothFilled == lastSubmit.username # "" /\ lastSubmit.password # ""

\* C1: under the local-credential strategy a submit with a non-empty username
\* and a non-empty password invokes authenticate exactly once, with exactly
\* those two values, and leaves showHelperText false and errorInput empty.
C1_ValidSubmitAuthenticatesOnce ==
  (AfterSubmit /\ LocalStrategy /\ BothFilled) =>
    /\ calls = << <<"authenticate", lastSubmit.username, lastSubmit.password>> >>
    /\ state.showHelperText = FALSE
    /\ state.errorInput = ""

\* A valid submit with two different values has run.
C1_Witness ==
  /\ AfterSubmit /\ LocalStrategy
  /\ lastSubmit.username = "a" /\ lastSubmit.password = "aa"
  /\ calls = << <<"authenticate", "a", "aa">> >>

\* C2: under the local-credential strategy a submit with an empty username or
\* an empty password does not invoke authenticate, sets showHelperText, clears
\* both validity flags and sets errorInput to the fixed prefix followed by the
\* one variant that names the empty field(s).
C2_InvalidSubmitReportsVariant ==
  (AfterSubmit /\ LocalStrategy /\ ~BothFilled) =>
    /\ calls = <<>>
    /\ state.showHelperText = TRUE
    /\ state.isValidUsername = FALSE
    /\ state.isValidPassword = FALSE
    /\ state.errorInput =
         MsgInvalidCredentials \o
           (CASE lastSubmit.username = "" /\ lastSubmit.password = "" -> MsgBothRequired
              [] lastSubmit.username = "" /\ lastSubmit.password # "" -> MsgUsernameRequired
              [] lastSubmit.username # "" /\ lastSubmit.password = "" -> MsgPasswordRequired)

\* A submit with only the password empty has been rejected.
C2_Witness ==
  /\ AfterSubmit /\ LocalStrategy
  /\ lastSubmit.username = "a" /\ lastSubmit.password = ""
  /\ state.errorInput = MsgInvalidCredentials \o MsgPasswordRequired

\* C3: under the external-identity-provider strategy a submit event leaves the
\* seven FormState fields unchanged, invokes no external operation and
\* navigates to the authorization endpoint; every submit event runs exactly
\* one of the two branches, the redirect under the external strategy and the
\* local-credential submit otherwise, whatever FormState and the props are,
\* and the local branch does not navigate.
C3_RedirectLeavesFormState ==
  [][Submit =>
       /\ branch' = (IF authenticationConfig.strategy = "openshift"
                     THEN "redirect" ELSE "local")
       /\ (authenticationConfig.strategy = "openshift") =>
            /\ state' = state
            /\ calls' = <<>>
            /\ href' = Navigate(authenticationConfig.authorizationEndpoint)
       /\ (authenticationConfig.strategy # "openshift") => href' = href
    ]_vars

\* A submit under the external strategy has navigated to the endpoint.
C3_Witness ==
  /\ lastEvent = "submit"
  /\ authenticationConfig.strategy = "openshift"
  /\ authenticationConfig.authorizationEndpoint # Undefined
  /\ href = authenticationConfig.authorizationEndpoint
  /\ branch = "redirect"
  /\ state = InitialState

\* C4: filledInputs is true iff a submit has happened and both username and
\* password were non-empty at the moment of the most recent submit.
C4_FilledInputsTracksLastSubmit ==
  state.filledInputs <=> (lastSubmit.happened /\ BothFilled)

\* filledInputs is still true after the fields were emptied again.
C4_Witness ==
  /\ state.filledInputs
  /\ lastEvent = "change"
  /\ state.username = "" /\ state.password = ""

\* The list render composes in the current state.
Messages == getHelperMessage(state, props, authenticationConfig)

\* The props render passes to the login form in the current state.
FormProps == LoginFormProps(state, props, authenticationConfig)

\* There is a non-empty validation or status-derived message to display.
HasMessageToDisplay ==
  \E i \in 1..Len(Messages) : Truthy(Messages[i].text)

\* C5 as stated: the helper text is shown, in FormState and in the props of
\* the rendered form, iff there is a non-empty validation or status-derived
\* message to display.
C5_Original ==
  phase = "mounted" =>
    /\ state.showHelperText <=> HasMessageToDisplay
    /\ FormProps.showHelperText <=> HasMessageToDisplay

\* C5 as amended: FormState.showHelperText is true iff errorInput holds a
\* non-empty validation message, and where the form is rendered the
\* showHelperText passed to it is true whenever there is a non-empty
\* validation or status-derived message to display.
C5_HelperTextTracksValidation ==
  /\ state.showHelperText <=> state.errorInput # ""
  /\ (authenticationConfig.strategy = "login" /\ HasMessageToDisplay) =>
       FormProps.showHelperText

\* After a rejected submit was followed by an accepted one the helper text is
\* hidden again, and a status-derived message alone shows it in the form only.
C5_Witness ==
  /\ AfterSubmit /\ LocalStrategy /\ BothFilled
  /\ ~state.showHelperText
  /\ props.status = "expired"
  /\ FormProps.showHelperText

\* The five conditions of the composed list, in the order of the source.
EntryApplies ==
  <<state.showHelperText,
    authenticationConfig.secretMissing,
    props.status = "expired",
    props.status = "error" /\ ~authenticationConfig.secretMissing,
    Truthy(props.postLoginErrorMsg)>>

\* What the k-th entry is when it applies: its kind and its text.
EntryKind == <<"span", "span", "span", "text", "span">>
EntryText ==
  <<state.errorInput, MsgSecretMissing, MsgSessionExpired, props.message,
    props.postLoginErrorMsg>>

\* The position of the k-th entry in the list: one more than the number of
\* entries before it that apply.
EntryPosition(k) == 1 + Cardinality({j \in 1..(k - 1) : EntryApplies[j]})

\* C6: the composed list holds exactly the entries that apply, in the order
\* validation error, secret-missing warning, session-expired warning,
\* external status message, post-login error.
C6_MessagesInFixedOrder ==
  /\ Len(Messages) = Cardinality({k \in 1..5 : EntryApplies[k]})
  /\ \A k \in 1..5 :
       EntryApplies[k] =>
         /\ Messages[EntryPosition(k)].kind = EntryKind[k]
         /\ Messages[EntryPosition(k)].text = EntryText[k]

\* Four entries apply at once (the status message excludes the expired one).
C6_Witness ==
  /\ state.showHelperText
  /\ authenticationConfig.secretMissing
  /\ props.status = "expired"
  /\ Truthy(props.postLoginErrorMsg)
  /\ Len(Messages) = 4

\* C7: whenever secretMissing is set the secret-missing warning is an element
\* of the composed list.
C7_SecretMissingAlwaysListed ==
  authenticationConfig.secretMissing =>
    \E i \in 1..Len(Messages) : Messages[i] = Span(MsgSecretMissing, "danger")

\* The warning is listed next to a validation error, an error status and a
\* post-login error.
C7_Witness ==
  /\ authenticationConfig.secretMissing
  /\ state.showHelperText
  /\ props.status = "error"
  /\ Truthy(props.postLoginErrorMsg)
  /\ Len(Messages) = 3

\* C8 as stated: after a submit under the local-credential strategy each
\* validity flag equals the non-emptiness of its own field.
C8_Original ==
  (AfterSubmit /\ LocalStrategy) =>
    /\ state.isValidUsername = (lastSubmit.username # "")
    /\ state.isValidPassword = (lastSubmit.password # "")

\* C8 as amended: after a submit under the local-credential strategy both
\* validity flags are true when both fields are non-empty, and both are false
\* when either field is empty.
C8_ValidityFlagsFollowBothFields ==
  (AfterSubmit /\ LocalStrategy) =>
    /\ state.isValidUsername = BothFilled
    /\ state.isValidPassword = BothFilled

\* A submit with a username and no password has cleared the username's flag.
C8_Witness ==
  /\ AfterSubmit /\ LocalStrategy
  /\ lastSubmit.username # "" /\ lastSubmit.password = ""
  /\ state.isValidUsername = FALSE

\* errorInput is empty or exactly one of the three validation messages.
OneValidationMessage ==
  state.errorInput \in
    {"",
     MsgInvalidCredentials \o MsgBothRequired,
     MsgInvalidCredentials \o MsgUsernameRequired,
     MsgInvalidCredentials \o MsgPasswordRequired}

\* C9: a submit with an empty field that follows a submit with no change
\* event in between leaves errorInput, showHelperText and the validity flags
\* as the first submit left them, and errorInput never holds more than one
\* validation message.
C9_InvalidSubmitIdempotent ==
  /\ []OneValidationMessage
  /\ [][(Submit /\ lastEvent = "submit" /\ LocalStrategy
           /\ (state.username = "" \/ state.password = "")) =>
          /\ state'.errorInput = state.errorInput
          /\ state'.showHelperText = state.showHelperText
          /\ state'.isValidUsername = state.isValidUsername
          /\ state'.isValidPassword = state.isValidPassword
          /\ state'.filledInputs = state.filledInputs
       ]_vars

\* The same invalid input has been submitted at least twice in a row.
C9_Witness ==
  /\ AfterSubmit /\ LocalStrategy
  /\ repeat >= 2
  /\ lastSubmit.username = "" /\ lastSubmit.password # ""
  /\ state.errorInput = MsgInvalidCredentials \o MsgUsernameRequired

\* The calls of the last handler that are calls of checkCredentials.
CheckCredentialsIn(cs) == {i \in 1..Len(cs) : cs[i] = <<"checkCredentials">>}

\* C10: mounting invokes checkCredentials exactly once, whatever the props and
\* the configuration are, and no change or submit event invokes it.
C10_MountChecksCredentialsOnce ==
  /\ phase = "constructed" => checkCredentialsCalls = 0
  /\ phase = "mounted" => checkCredentialsCalls = 1
  /\ lastEvent = "mount" => Cardinality(CheckCredentialsIn(calls)) = 1
  /\ lastEvent \in {"change", "submit"} => CheckCredentialsIn(calls) = {}

\* A mounted instance under the external strategy after a submit.
C10_Witness ==
  /\ phase = "mounted"
  /\ authenticationConfig.strategy = "openshift"
  /\ lastEvent = "submit"
  /\ checkCredentialsCalls = 1

\* The submit control of the current render.
Control == SubmitControl(state, props, authenticationConfig)

\* A login attempt is in flight, as the props tell it.
LoginInFlight == props.isPostLoginPerforming \/ props.status = "logging"

\* C11 as stated: in every rendered state the submit control is disabled
\* whenever a login attempt is in flight or a post-login error message is
\* present, and its label is the in-progress text exactly when a login attempt
\* is in flight.
C11_Original ==
  phase = "mounted" =>
    /\ (LoginInFlight \/ Truthy(props.postLoginErrorMsg)) => Control.disabled
    /\ (Control.label = LabelLoggingIn) <=> LoginInFlight

\* C11 as amended: in every rendered state under the login strategy, where the
\* login form is rendered, the form's login button is disabled whenever a
\* login attempt is in flight or a post-login error message is present, and
\* its label is the in-progress text exactly when a login attempt is in
\* flight; under the external strategy the plain button is never disabled and
\* keeps its fixed label.
C11_FormButtonDisabledInFlight ==
  /\ (phase = "mounted" /\ authenticationConfig.strategy = "login") =>
       /\ (LoginInFlight \/ Truthy(props.postLoginErrorMsg)) => Control.disabled
       /\ (Control.label = LabelLoggingIn) <=> LoginInFlight
  /\ (phase = "mounted" /\ authenticationConfig.strategy = "openshift") =>
       /\ Control.disabled = FALSE
       /\ Control.label = LabelLoginOpenShift

\* The form's button is disabled by a post-login error alone and keeps the
\* idle label.
C11_Witness ==
  /\ phase = "mounted" /\ authenticationConfig.strategy = "login"
  /\ ~LoginInFlight
  /\ Truthy(props.postLoginErrorMsg)
  /\ Control.disabled
  /\ Control.label = Undefined

\* The fields of FormState.
Fields == DOMAIN InitialState

\* A step of handleUsernameChange, with the value the field holds after it.
UsernameChangeStep == handleUsernameChange(state'.username)

\* A step of handlePasswordChange, with the value the field holds after it.
PasswordChangeStep == handlePasswordChange(state'.password)

\* C12: a username-change event overwrites username alone and a
\* password-change event password alone; the other six fields of FormState
\* stay as they were and no external operation is invoked, so a validation
\* error stays in place through the edits.
C12_ChangeOverwritesOneField ==
  [][/\ UsernameChangeStep =>
          /\ \A f \in Fields \ {"username"} : state'[f] = state[f]
          /\ calls' = <<>>
     /\ PasswordChangeStep =>
          /\ \A f \in Fields \ {"password"} : state'[f] = state[f]
          /\ calls' = <<>>
    ]_vars

\* The error of a rejected submit with both fields empty is still shown after
\* both fields were edited.
C12_Witness ==
  /\ lastEvent = "change"
  /\ state.username # "" /\ state.password # ""
  /\ state.showHelperText
  /\ state.errorInput = MsgInvalidCredentials \o MsgBothRequired
  /\ state.isValidUsername = FALSE /\ state.isValidPassword = FALSE

\* The fields hold valid credentials for the local-credential submit.
ValidLocalInput ==
  LocalStrategy /\ state.username # "" /\ state.password # ""

\* A step of handleSubmit.
SubmitStep == lastEvent' = "submit" /\ Submit

\* A step of one of the controller's other handlers.
OtherHandlerStep ==
  \/ componentDidMount
  \/ lastEvent' = "change" /\ (UsernameChangeStep \/ PasswordChangeStep)

\* C13: a submit with valid credentials under the local-credential strategy
\* dispatches one more authenticate request whatever number of earlier
\* requests is still outstanding, and leaves those outstanding; no other
\* handler step changes the number of outstanding requests; and no step of
\* the controller changes status, message or postLoginErrorMsg.
C13_AuthenticateFireAndForget ==
  [][/\ SubmitStep =>
          /\ props' = props
          /\ ValidLocalInput =>
               /\ inFlight' = inFlight + 1
               /\ calls' = << <<"authenticate", state.username, state.password>> >>
          /\ ~ValidLocalInput => inFlight' = inFlight
     /\ OtherHandlerStep =>
          /\ props' = props
          /\ inFlight' = inFlight
    ]_vars

\* A valid submit has dispatched a second request while the first one is
\* still outstanding.
C13_Witness ==
  /\ lastEvent = "submit" /\ LocalStrategy
  /\ calls = << <<"authenticate", lastSubmit.username, lastSubmit.password>> >>
  /\ inFlight = 2
====
